---- MODULE Spec2Model ----
(***************************************************************************)
(* Model of asynctarpit.py: an asyncio TCP tarpit.  One task per accepted  *)
(* connection runs tarpit_handler, which registers the connection's writer *)
(* in the module-level set active_connections, then loops forever writing  *)
(* one random byte, draining and sleeping DELAY seconds, and finally       *)
(* deregisters and closes the socket.                                      *)
(*                                                                         *)
(* Each connection's task is a process whose position is pc[c].  Code      *)
(* between two awaits runs without interleaving in the event loop; the     *)
(* model takes steps that are at most that large.  Time is discrete: Tick  *)
(* lets time pass only when no task is ready to run, and never jumps past  *)
(* the expiry of a pending asyncio.sleep.                                  *)
(***************************************************************************)
EXTENDS Integers, Sequences, FiniteSets, TLC

\* ---- bounds of the model ------------------------------------------------
NumConns == 2
MaxTime == 35
MaxBytes == 3
MaxReports == 3
TickStep == 5
NumHandlers == 1

\* ---- program constants --------------------------------------------------
DELAY == 10
WriteLen == 1

Conns == 1..NumConns

\* Exception classes that socket I/O can raise, by the class hierarchy that
\* the except clauses test: the three _SUPPRESSED classes are subclasses of
\* OSError; "OSError" stands for any other OSError (e.g. TimeoutError) and
\* "Exception" for an Exception that is not an OSError.
ErrKinds ==
  {"ConnectionResetError", "ConnectionAbortedError", "BrokenPipeError",
   "OSError", "Exception"}

SUPPRESSED ==
  {"ConnectionResetError", "ConnectionAbortedError", "BrokenPipeError"}

\* except (*_SUPPRESSED, OSError) around wait_closed()
CloseSuppressed == SUPPRESSED \cup {"OSError"}

VARIABLES
  accepting,   \* the listening socket is open (server.serve_forever running)
  pc,          \* position of each connection's handler task
  active,      \* active_connections
  sock,        \* transport of the writer: "open", "closing", "closed"
  net,         \* "ok", or the error the connection's I/O now raises
  buf,         \* bytes written by the handler and not yet flushed
  written,     \* bytes the handler has written (saturates at MaxBytes)
  timer,       \* time left of the pending asyncio.sleep(DELAY)
  age,         \* time since the connection was accepted (saturates)
  sinceWrite,  \* time since the handler's last write (saturates at DELAY)
  failAge,     \* time since the connection's I/O broke (saturates)
  exit,        \* how the drip loop was left: "none", "failed", "cancelled"
  cleanups,    \* number of times the finally block has run
  log,         \* the records the handler has passed to logging
  noop,        \* the handler's discard found its writer absent
  closeCalls,  \* number of times the handler has called writer.close()
  origInstalled, \* _orig_exception_handler is not None
  handled      \* the contexts given to _quiet_exception_handler, and their fate

vars ==
  <<accepting, pc, active, sock, net, buf, written, timer, age, sinceWrite,
    failAge, exit, cleanups, log, noop, closeCalls, origInstalled, handled>>

\* The state of the loop's exception handler, which no step of the server or
\* of a connection handler touches.
hook == <<origInstalled, handled>>

\* set.add and set.discard of active_connections (lines 37 and 50).
SetAdd(S, w) == S \cup {w}

SetDiscard(S, w) == S \ {w}

Min(a, b) == IF a <= b THEN a ELSE b

Rec(level, msg, detail) == [level |-> level, msg |-> msg, detail |-> detail]

Count(s, msg) == Cardinality({i \in DOMAIN s : s[i].msg = msg})

PcStates ==
  {"idle", "accepted", "write", "drain", "sleep", "finally", "close",
   "wait_closed", "done"}

TypeOK ==
  /\ accepting \in BOOLEAN
  /\ pc \in [Conns -> PcStates]
  /\ active \subseteq Conns
  /\ sock \in [Conns -> {"open", "closing", "closed"}]
  /\ net \in [Conns -> {"ok"} \cup ErrKinds]
  /\ buf \in [Conns -> 0..(2 * WriteLen + 1)]
  /\ written \in [Conns -> 0..MaxBytes]
  /\ timer \in [Conns -> 0..(2 * DELAY)]
  /\ age \in [Conns -> 0..MaxTime]
  /\ sinceWrite \in [Conns -> 0..DELAY]
  /\ failAge \in [Conns -> 0..MaxTime]
  /\ exit \in [Conns -> {"none", "failed", "cancelled"}]
  /\ cleanups \in [Conns -> 0..2]
  /\ noop \in [Conns -> BOOLEAN]
  /\ closeCalls \in [Conns -> 0..2]
  /\ origInstalled \in BOOLEAN
  /\ handled \in Seq([exc : ErrKinds \cup {"none"}, to : {"swallowed", "orig", "default"}])

\* The server is listening and no connection has been made.
InitConns ==
  /\ accepting = TRUE
  /\ pc = [c \in Conns |-> "idle"]
  /\ active = {}
  /\ sock = [c \in Conns |-> "open"]
  /\ net = [c \in Conns |-> "ok"]
  /\ buf = [c \in Conns |-> 0]
  /\ written = [c \in Conns |-> 0]
  /\ timer = [c \in Conns |-> 0]
  /\ age = [c \in Conns |-> 0]
  /\ sinceWrite = [c \in Conns |-> 0]
  /\ failAge = [c \in Conns |-> 0]
  /\ exit = [c \in Conns |-> "none"]
  /\ cleanups = [c \in Conns |-> 0]
  /\ log = [c \in Conns |-> <<>>]
  /\ noop = [c \in Conns |-> FALSE]
  /\ closeCalls = [c \in Conns |-> 0]

\* asyncio.run starts a loop that has no exception handler of its own.
Init ==
  /\ InitConns
  /\ origInstalled = FALSE
  /\ handled = <<>>

\* main() or run_all() has installed _quiet_exception_handler in a loop that
\* had, or had not, an exception handler before.
InitQuiet ==
  /\ InitConns
  /\ origInstalled \in BOOLEAN
  /\ handled = <<>>

\* ---- the server ---------------------------------------------------------

\* Accept as it would be if the accept step itself added the connection to
\* active_connections before the handler task is created.
AcceptRegisters(c) ==
  /\ accepting
  /\ pc[c] = "idle"
  /\ active' = active \cup {c}
  /\ pc' = [pc EXCEPT ![c] = "accepted"]
  /\ UNCHANGED <<hook, noop, closeCalls>>
  /\ UNCHANGED <<accepting, sock, net, buf, written, timer, age,
                 sinceWrite, failAge, exit, cleanups, log>>

\* Accept as it would be if the accept loop awaited each handler: no
\* connection is accepted while a handler is suspended.
AcceptBlocking(c) ==
  /\ accepting
  /\ pc[c] = "idle"
  /\ \A d \in Conns : pc[d] \notin {"drain", "sleep", "wait_closed"}
  /\ pc' = [pc EXCEPT ![c] = "accepted"]
  /\ UNCHANGED <<hook, noop, closeCalls>>
  /\ UNCHANGED <<accepting, active, sock, net, buf, written, timer, age,
                 sinceWrite, failAge, exit, cleanups, log>>

\* asyncio.start_server / serve_forever: a connection is accepted and a task
\* running tarpit_handler(reader, writer) is created for it; the task has
\* not run yet.
Accept(c) ==
  /\ accepting
  /\ pc[c] = "idle"
  /\ pc' = [pc EXCEPT ![c] = "accepted"]
  /\ UNCHANGED <<hook, noop, closeCalls>>
  /\ UNCHANGED <<accepting, active, sock, net, buf, written, timer, age,
                 sinceWrite, failAge, exit, cleanups, log>>

\* ServerClose as it would be if closing the server also cancelled the
\* handlers suspended in the drip loop.
ServerCloseCancels ==
  /\ accepting
  /\ accepting' = FALSE
  /\ pc' = [c \in Conns |-> IF pc[c] \in {"drain", "sleep"} THEN "finally" ELSE pc[c]]
  /\ exit' = [c \in Conns |-> IF pc[c] \in {"drain", "sleep"} THEN "cancelled" ELSE exit[c]]
  /\ UNCHANGED <<hook, noop, closeCalls>>
  /\ UNCHANGED <<active, sock, net, buf, written, timer, age, sinceWrite,
                 failAge, cleanups, log>>

\* The server is closed (leaving "async with server", or server.close()):
\* the listening socket is closed; nothing is done to the handlers.
ServerClose ==
  /\ accepting
  /\ accepting' = FALSE
  /\ UNCHANGED <<hook, noop, closeCalls>>
  /\ UNCHANGED <<pc, active, sock, net, buf, written, timer, age, sinceWrite,
                 failAge, exit, cleanups, log>>

\* ---- tarpit_handler -----------------------------------------------------

\* Register as it would be if the handler forgot to register the writer.
RegisterNoAdd(c) ==
  /\ pc[c] = "accepted"
  /\ log' = [log EXCEPT ![c] = Append(@, Rec("info", "Connection trapped", "none"))]
  /\ pc' = [pc EXCEPT ![c] = "write"]
  /\ UNCHANGED <<hook, noop, closeCalls>>
  /\ UNCHANGED <<accepting, active, sock, net, buf, written, timer, age,
                 sinceWrite, failAge, exit, cleanups>>

\* Lines 34-37: log "Connection trapped", active_connections.add(writer).
Register(c) ==
  /\ pc[c] = "accepted"
  /\ log' = [log EXCEPT ![c] = Append(@, Rec("info", "Connection trapped", "none"))]
  /\ active' = SetAdd(active, c)
  /\ pc' = [pc EXCEPT ![c] = "write"]
  /\ UNCHANGED <<hook, noop, closeCalls>>
  /\ UNCHANGED <<accepting, sock, net, buf, written, timer, age, sinceWrite,
                 failAge, exit, cleanups>>

\* Write as it would be if the handler wrote two bytes at a time.
WriteTwo(c) ==
  /\ pc[c] = "write"
  /\ buf' = [buf EXCEPT ![c] = @ + 2]
  /\ written' = [written EXCEPT ![c] = Min(@ + 2, MaxBytes)]
  /\ sinceWrite' = [sinceWrite EXCEPT ![c] = 0]
  /\ pc' = [pc EXCEPT ![c] = "drain"]
  /\ UNCHANGED <<hook, noop, closeCalls>>
  /\ UNCHANGED <<accepting, active, sock, net, timer, age, failAge, exit,
                 cleanups, log>>

\* Line 42: writer.write(os.urandom(1)).  The byte is buffered; write itself
\* does not raise on a broken connection.
Write(c) ==
  /\ pc[c] = "write"
  /\ buf' = [buf EXCEPT ![c] = @ + WriteLen]
  /\ written' = [written EXCEPT ![c] = Min(@ + WriteLen, MaxBytes)]
  /\ sinceWrite' = [sinceWrite EXCEPT ![c] = 0]
  /\ pc' = [pc EXCEPT ![c] = "drain"]
  /\ UNCHANGED <<hook, noop, closeCalls>>
  /\ UNCHANGED <<accepting, active, sock, net, timer, age, failAge, exit,
                 cleanups, log>>

\* DrainOk as it would be if the loop did not sleep between two bytes.
DrainOkNoSleep(c) ==
  /\ pc[c] = "drain"
  /\ net[c] = "ok"
  /\ buf' = [buf EXCEPT ![c] = 0]
  /\ timer' = [timer EXCEPT ![c] = 0]
  /\ pc' = [pc EXCEPT ![c] = "sleep"]
  /\ UNCHANGED <<hook, noop, closeCalls>>
  /\ UNCHANGED <<accepting, active, sock, net, written, age, sinceWrite,
                 failAge, exit, cleanups, log>>

\* DrainOk as it would be if the handler did not await drain(), so that a
\* broken connection went unnoticed.
DrainOkIgnoresError(c) ==
  /\ pc[c] = "drain"
  /\ buf' = [buf EXCEPT ![c] = 0]
  /\ timer' = [timer EXCEPT ![c] = DELAY]
  /\ pc' = [pc EXCEPT ![c] = "sleep"]
  /\ UNCHANGED <<hook, noop, closeCalls>>
  /\ UNCHANGED <<accepting, active, sock, net, written, age, sinceWrite,
                 failAge, exit, cleanups, log>>

\* Lines 43-44: drain() returns (the byte is flushed) and sleep(DELAY) starts.
DrainOk(c) ==
  /\ pc[c] = "drain"
  /\ net[c] = "ok"
  /\ buf' = [buf EXCEPT ![c] = 0]
  /\ timer' = [timer EXCEPT ![c] = DELAY]
  /\ pc' = [pc EXCEPT ![c] = "sleep"]
  /\ UNCHANGED <<hook, noop, closeCalls>>
  /\ UNCHANGED <<accepting, active, sock, net, written, age, sinceWrite,
                 failAge, exit, cleanups, log>>

\* ExceptLog as it would be if BrokenPipeError were missing from _SUPPRESSED.
ExceptLogNoPipe(e) ==
  IF e \in {"ConnectionResetError", "ConnectionAbortedError"}
    THEN Rec("info", "Connection lost", "none")
    ELSE Rec("error", "Error", e)

\* Lines 45-48: the record logged for an exception e raised in the try block.
ExceptLog(e) ==
  IF e \in SUPPRESSED
    THEN Rec("info", "Connection lost", "none")
    ELSE Rec("error", "Error", e)

\* Line 43 raises: drain() raises the connection's error, which one of the
\* two except clauses logs; control enters the finally block.
DrainFail(c) ==
  /\ pc[c] = "drain"
  /\ net[c] # "ok"
  /\ log' = [log EXCEPT ![c] = Append(@, ExceptLog(net[c]))]
  /\ exit' = [exit EXCEPT ![c] = "failed"]
  /\ pc' = [pc EXCEPT ![c] = "finally"]
  /\ UNCHANGED <<hook, noop, closeCalls>>
  /\ UNCHANGED <<accepting, active, sock, net, buf, written, timer, age,
                 sinceWrite, failAge, cleanups>>

\* Wake as it would be if the loop were "for _ in range(2)" instead of
\* "while True": after the second byte's delay the loop ends normally.
WakeBounded(c) ==
  /\ pc[c] = "sleep"
  /\ timer[c] = 0
  /\ pc' = [pc EXCEPT ![c] = IF written[c] >= 2 THEN "finally" ELSE "write"]
  /\ UNCHANGED <<hook, noop, closeCalls>>
  /\ UNCHANGED <<accepting, active, sock, net, buf, written, timer, age,
                 sinceWrite, failAge, exit, cleanups, log>>

\* Line 44 returns: the sleep has expired, the loop goes back to line 42.
Wake(c) ==
  /\ pc[c] = "sleep"
  /\ timer[c] = 0
  /\ pc' = [pc EXCEPT ![c] = "write"]
  /\ UNCHANGED <<hook, noop, closeCalls>>
  /\ UNCHANGED <<accepting, active, sock, net, buf, written, timer, age,
                 sinceWrite, failAge, exit, cleanups, log>>

\* Discard as it would be if the finally block did not deregister the writer.
DiscardKeeps(c) ==
  /\ pc[c] = "finally"
  /\ noop' = [noop EXCEPT ![c] = c \notin active]
  /\ cleanups' = [cleanups EXCEPT ![c] = @ + 1]
  /\ pc' = [pc EXCEPT ![c] = "close"]
  /\ UNCHANGED <<hook, closeCalls>>
  /\ UNCHANGED <<accepting, active, sock, net, buf, written, timer, age,
                 sinceWrite, failAge, exit, log>>

\* Discard as it would be if the finally block cleared the whole registry.
DiscardClearsAll(c) ==
  /\ pc[c] = "finally"
  /\ noop' = [noop EXCEPT ![c] = c \notin active]
  /\ active' = {}
  /\ cleanups' = [cleanups EXCEPT ![c] = @ + 1]
  /\ pc' = [pc EXCEPT ![c] = "close"]
  /\ UNCHANGED <<hook, closeCalls>>
  /\ UNCHANGED <<accepting, sock, net, buf, written, timer, age, sinceWrite,
                 failAge, exit, log>>

\* Discard as it would be if line 50 were active_connections.remove(writer):
\* for a writer that is not in the set it raises KeyError inside the finally
\* block and the handler ends without closing its socket.
DiscardRemove(c) ==
  /\ pc[c] = "finally"
  /\ noop' = [noop EXCEPT ![c] = c \notin active]
  /\ active' = active \ {c}
  /\ cleanups' = [cleanups EXCEPT ![c] = @ + 1]
  /\ pc' = [pc EXCEPT ![c] = IF c \in active THEN "close" ELSE "done"]
  /\ UNCHANGED <<hook, closeCalls>>
  /\ UNCHANGED <<accepting, sock, net, buf, written, timer, age, sinceWrite,
                 failAge, exit, log>>

\* Line 50: active_connections.discard(writer), the first statement of the
\* finally block.
Discard(c) ==
  /\ pc[c] = "finally"
  /\ noop' = [noop EXCEPT ![c] = c \notin active]
  /\ active' = SetDiscard(active, c)
  /\ cleanups' = [cleanups EXCEPT ![c] = @ + 1]
  /\ pc' = [pc EXCEPT ![c] = "close"]
  /\ UNCHANGED <<hook, closeCalls>>
  /\ UNCHANGED <<accepting, sock, net, buf, written, timer, age, sinceWrite,
                 failAge, exit, log>>

\* Close as it would be if the handler sent a last byte before it closed the
\* socket.
CloseWritesLast(c) ==
  /\ pc[c] = "close"
  /\ buf' = [buf EXCEPT ![c] = @ + WriteLen]
  /\ sock' = [sock EXCEPT ![c] = IF @ = "open" THEN "closing" ELSE @]
  /\ closeCalls' = [closeCalls EXCEPT ![c] = IF sock[c] = "open" THEN @ + 1 ELSE @]
  /\ pc' = [pc EXCEPT ![c] = "wait_closed"]
  /\ UNCHANGED <<hook, noop>>
  /\ UNCHANGED <<accepting, active, net, written, timer, age, sinceWrite,
                 failAge, exit, cleanups, log>>

\* Close as it would be if the handler called writer.close() without asking
\* is_closing() first.
CloseAlways(c) ==
  /\ pc[c] = "close"
  /\ sock' = [sock EXCEPT ![c] = IF @ = "open" THEN "closing" ELSE @]
  /\ closeCalls' = [closeCalls EXCEPT ![c] = @ + 1]
  /\ pc' = [pc EXCEPT ![c] = "wait_closed"]
  /\ UNCHANGED <<hook, noop>>
  /\ UNCHANGED <<accepting, active, net, buf, written, timer, age, sinceWrite,
                 failAge, exit, cleanups, log>>

\* Lines 51-53: if not writer.is_closing(): writer.close(); the handler then
\* awaits wait_closed().
Close(c) ==
  /\ pc[c] = "close"
  /\ sock' = [sock EXCEPT ![c] = IF @ = "open" THEN "closing" ELSE @]
  /\ closeCalls' = [closeCalls EXCEPT ![c] = IF sock[c] = "open" THEN @ + 1 ELSE @]
  /\ pc' = [pc EXCEPT ![c] = "wait_closed"]
  /\ UNCHANGED <<hook, noop>>
  /\ UNCHANGED <<accepting, active, net, buf, written, timer, age, sinceWrite,
                 failAge, exit, cleanups, log>>

\* Lines 54-57: wait_closed() returns, or raises the connection's error.  An
\* error of (*_SUPPRESSED, OSError) is passed over and "Connection closed" is
\* logged; any other exception leaves the handler without the log record.
WaitClosed(c) ==
  /\ pc[c] = "wait_closed"
  /\ sock' = [sock EXCEPT ![c] = "closed"]
  /\ log' = [log EXCEPT ![c] =
               IF net[c] = "ok" \/ net[c] \in CloseSuppressed
                 THEN Append(@, Rec("info", "Connection closed", "none"))
                 ELSE @]
  /\ pc' = [pc EXCEPT ![c] = "done"]
  /\ UNCHANGED <<hook, noop, closeCalls>>
  /\ UNCHANGED <<accepting, active, net, buf, written, timer, age, sinceWrite,
                 failAge, exit, cleanups>>

\* Cancel as it would be if the cleanup were in an except clause instead of
\* the finally block: a cancelled handler ends without it.
CancelSkipsFinally(c) ==
  /\ pc[c] \in {"drain", "sleep", "wait_closed"}
  /\ pc' = [pc EXCEPT ![c] = "done"]
  /\ exit' = [exit EXCEPT ![c] = IF pc[c] = "wait_closed" THEN @ ELSE "cancelled"]
  /\ UNCHANGED <<hook, noop, closeCalls>>
  /\ UNCHANGED <<accepting, active, sock, net, buf, written, timer, age,
                 sinceWrite, failAge, cleanups, log>>

\* Cancel as it would be if the second except clause were "except
\* BaseException": the cancellation is logged as an error.
CancelLogged(c) ==
  /\ pc[c] \in {"drain", "sleep", "wait_closed"}
  /\ pc' = [pc EXCEPT ![c] = IF @ = "wait_closed" THEN "done" ELSE "finally"]
  /\ exit' = [exit EXCEPT ![c] = IF pc[c] = "wait_closed" THEN @ ELSE "cancelled"]
  /\ log' = [log EXCEPT ![c] =
               IF pc[c] = "wait_closed" THEN @
               ELSE Append(@, Rec("error", "Error", "CancelledError"))]
  /\ UNCHANGED <<hook, noop, closeCalls>>
  /\ UNCHANGED <<accepting, active, sock, net, buf, written, timer, age,
                 sinceWrite, failAge, cleanups>>

\* The handler's task is cancelled from outside while it is suspended in an
\* await.  CancelledError is not an Exception: in drain() or sleep() it
\* passes both except clauses and enters the finally block; in wait_closed()
\* it passes "except (*_SUPPRESSED, OSError)" and ends the handler.
Cancel(c) ==
  /\ pc[c] \in {"drain", "sleep", "wait_closed"}
  /\ pc' = [pc EXCEPT ![c] = IF @ = "wait_closed" THEN "done" ELSE "finally"]
  /\ exit' = [exit EXCEPT ![c] = IF pc[c] = "wait_closed" THEN @ ELSE "cancelled"]
  /\ UNCHANGED <<hook, noop, closeCalls>>
  /\ UNCHANGED <<accepting, active, sock, net, buf, written, timer, age,
                 sinceWrite, failAge, cleanups, log>>

\* ---- the environment ----------------------------------------------------

\* Exceptions raised by the transport's own socket calls: when one occurs the
\* transport closes itself (is_closing() becomes true) before drain() or
\* wait_closed() can raise it.
TransportErrors == SUPPRESSED \cup {"OSError"}

\* The connection breaks (the peer resets or aborts it, the pipe breaks, or
\* another error occurs): from now on awaiting its I/O raises e.
PeerFail(c, e) ==
  /\ pc[c] \notin {"idle", "done"}
  /\ net[c] = "ok"
  /\ net' = [net EXCEPT ![c] = e]
  /\ sock' = [sock EXCEPT ![c] =
                IF e \in TransportErrors /\ @ = "open" THEN "closing" ELSE @]
  /\ UNCHANGED <<hook, noop, closeCalls>>
  /\ UNCHANGED <<accepting, pc, active, buf, written, timer, age, sinceWrite,
                 failAge, exit, cleanups, log>>

\* The test runner empties the registry between two tests
\* (active_connections.clear()) while handlers of the earlier test may
\* still be alive.
ClearRegistry ==
  /\ active # {}
  /\ active' = {}
  /\ UNCHANGED <<hook, noop, closeCalls>>
  /\ UNCHANGED <<accepting, pc, sock, net, buf, written, timer, age, sinceWrite,
                 failAge, exit, cleanups, log>>

\* A task is ready to run: the event loop runs it before any time passes.
Runnable(c) ==
  \/ pc[c] \in {"accepted", "write", "drain", "finally", "close"}
  \/ pc[c] = "sleep" /\ timer[c] = 0

Sleeping == {c \in Conns : pc[c] = "sleep"}

Alive == {c \in Conns : pc[c] \notin {"idle", "done"}}

\* The time that passes in one Tick: TickStep, or less when a sleep expires
\* sooner.
Step ==
  IF Sleeping = {}
    THEN TickStep
    ELSE Min(TickStep, CHOOSE t \in {timer[c] : c \in Sleeping} :
                         \A c \in Sleeping : t <= timer[c])

Tick ==
  /\ Alive # {}
  /\ \A c \in Conns : ~Runnable(c)
  /\ timer' = [c \in Conns |-> IF c \in Sleeping THEN timer[c] - Step ELSE timer[c]]
  /\ age' = [c \in Conns |-> IF c \in Alive THEN Min(age[c] + Step, MaxTime) ELSE age[c]]
  /\ sinceWrite' = [c \in Conns |->
                      IF c \in Alive THEN Min(sinceWrite[c] + Step, DELAY)
                                     ELSE sinceWrite[c]]
  /\ failAge' = [c \in Conns |->
                   IF c \in Alive /\ net[c] # "ok"
                     THEN Min(failAge[c] + Step, MaxTime) ELSE failAge[c]]
  /\ UNCHANGED <<hook, noop, closeCalls>>
  /\ UNCHANGED <<accepting, pc, active, sock, net, buf, written, exit,
                 cleanups, log>>

\* Line 44, with the amount of time abstracted away: time passes until the
\* pending sleep of c expires.
Expire(c) ==
  /\ pc[c] = "sleep"
  /\ timer[c] > 0
  /\ timer' = [timer EXCEPT ![c] = 0]
  /\ UNCHANGED <<hook, noop, closeCalls>>
  /\ UNCHANGED <<accepting, pc, active, sock, net, buf, written, age,
                 sinceWrite, failAge, exit, cleanups, log>>

Handler(c) ==
  \/ Register(c)
  \/ Write(c)
  \/ DrainOk(c)
  \/ DrainFail(c)
  \/ Wake(c)
  \/ Discard(c)
  \/ Close(c)
  \/ WaitClosed(c)

\* ---- the loop's exception handler ----------------------------------------

\* What the event loop can report: a context whose "exception" is of one of
\* the classes, or a context without an exception (context.get returns None).
ContextKinds == ErrKinds \cup {"none"}

\* _quiet_exception_handler as it would be if it tested for OSError, the
\* base class, instead of the three classes of _SUPPRESSED.
QuietHandlerAnyOSError(exc, orig) ==
  IF exc \in SUPPRESSED \cup {"OSError"} THEN "swallowed"
  ELSE IF orig THEN "orig"
  ELSE "default"

\* Lines 23-30: where _quiet_exception_handler sends a context whose
\* exception is exc, orig telling whether _orig_exception_handler is set.
QuietHandler(exc, orig) ==
  IF exc \in SUPPRESSED THEN "swallowed"
  ELSE IF orig THEN "orig"
  ELSE "default"

\* The event loop calls the installed handler with a context.
Report(exc) ==
  /\ Len(handled) < MaxReports
  /\ handled' = Append(handled, [exc |-> exc, to |-> QuietHandler(exc, origInstalled)])
  /\ UNCHANGED <<origInstalled, noop, closeCalls>>
  /\ UNCHANGED <<accepting, pc, active, sock, net, buf, written, timer, age,
                 sinceWrite, failAge, exit, cleanups, log>>

\* ---- specifications ------------------------------------------------------

\* One error of each way the two pairs of except clauses treat an exception:
\* passed over in both, logged as "Error" in the loop but passed over at
\* wait_closed(), and not passed over anywhere.
ErrSample == {"ConnectionResetError", "OSError", "Exception"}

\* The server and the handlers of all connections, with the amount of time
\* abstracted: a pending sleep may expire at any moment.
Next ==
  \/ \E c \in Conns : Accept(c)
  \/ ServerClose
  \/ \E c \in Conns : Handler(c)
  \/ \E c \in Conns : \E e \in ErrSample : PeerFail(c, e)
  \/ \E c \in Conns : Expire(c)

Spec == Init /\ [][Next]_vars

\* The handlers of the connections 1..NumHandlers in full: every class of
\* I/O error and cancellation from outside, time abstracted.
HandlerConns == 1..NumHandlers

NextHandler ==
  \/ \E c \in HandlerConns : Accept(c)
  \/ \E c \in HandlerConns : Handler(c)
  \/ \E c \in HandlerConns : Cancel(c)
  \/ \E c \in HandlerConns : \E e \in ErrKinds : PeerFail(c, e)
  \/ \E c \in HandlerConns : Expire(c)

HandlerSpec == Init /\ [][NextHandler]_vars

\* The server and the handlers of the connections 1..NumHandlers with
\* measured time and peers that reset their connections.
NextTimed ==
  \/ \E c \in HandlerConns : Accept(c)
  \/ ServerClose
  \/ \E c \in HandlerConns : Handler(c)
  \/ \E c \in HandlerConns : PeerFail(c, "ConnectionResetError")
  \/ Tick

TimedSpec == Init /\ [][NextTimed]_vars

\* The server and the handlers with peers that reset their connections; the
\* event loop runs every ready task and every pending sleep expires.
NextFair ==
  \/ \E c \in Conns : Accept(c)
  \/ \E c \in Conns : Handler(c)
  \/ \E c \in Conns : PeerFail(c, "ConnectionResetError")
  \/ \E c \in Conns : Expire(c)

FairSpec ==
  /\ Init
  /\ [][NextFair]_vars
  /\ \A c \in Conns : WF_vars(Handler(c))
  /\ \A c \in Conns : WF_vars(Expire(c))

\* HandlerSpec where the event loop runs every ready task and every pending
\* sleep expires.
FairHandlerSpec ==
  /\ Init
  /\ [][NextHandler]_vars
  /\ \A c \in HandlerConns : WF_vars(Handler(c))
  /\ \A c \in HandlerConns : WF_vars(Expire(c))

\* The server and the handlers under the test runner, which may clear the
\* registry at any moment.
NextTest ==
  \/ \E c \in Conns : Accept(c)
  \/ \E c \in Conns : Handler(c)
  \/ \E c \in Conns : PeerFail(c, "ConnectionResetError")
  \/ \E c \in Conns : Expire(c)
  \/ ClearRegistry

TestSpec == Init /\ [][NextTest]_vars

\* The exception handler alone, called with every kind of context.
NextQuiet == \E exc \in ContextKinds : Report(exc)

QuietSpec == InitQuiet /\ [][NextQuiet]_vars

\* ---- properties ----------------------------------------------------------

InLoop(c) == pc[c] \in {"write", "drain", "sleep"}

\* C1: no byte is written on a connection before one full DELAY has elapsed
\* since it was accepted.
C1_NoBanner ==
  \A c \in Conns : written[c] > 0 => age[c] >= DELAY

\* C2: the finally cleanup runs exactly once on every exit path from the
\* drip loop (failure or cancellation), never more than once, and a
\* terminated handler's connection is not in active_connections.
C2_CleanupOnce ==
  \A c \in Conns :
    /\ cleanups[c] <= 1
    /\ (exit[c] # "none" /\ pc[c] \in {"close", "wait_closed", "done"}) => cleanups[c] = 1
    /\ pc[c] = "done" => (cleanups[c] = 1 /\ c \notin active)

C2_Witness ==
  \E c \in Conns :
    pc[c] = "done" /\ exit[c] = "cancelled" /\ cleanups[c] = 1 /\ c \notin active

\* C3 as stated: a connection is in active_connections if and only if it has
\* been accepted and its socket closure has not yet completed.
C3_Original ==
  \A c \in Conns : c \in active <=> (pc[c] # "idle" /\ sock[c] # "closed")

\* C3 as amended: a connection is in active_connections if and only if its
\* handler has registered it (line 37) and has not yet begun its cleanup
\* (line 50), that is, the handler is in the drip loop or has just left it.
C3_RegisteredIffInLoop ==
  \A c \in Conns : c \in active <=> (InLoop(c) \/ pc[c] = "finally")

C3_Witness ==
  \E c \in Conns : pc[c] = "wait_closed" /\ sock[c] = "closing" /\ c \notin active

\* A step in which the handler of c deals with a failure of its connection:
\* the raise in drain(), or a step of the cleanup that follows it.
FailureStep(c) ==
  /\ net[c] # "ok"
  /\ pc'[c] # pc[c]
  /\ pc'[c] \in {"finally", "close", "wait_closed", "done"}

\* C4: a connection reset by its peer is still registered for at most one
\* DELAY after the reset (it is removed at the handler's next flush), and no
\* step in which the handler deals with the failure stops the server
\* accepting.
C4_ResetRemovedWithinDelay ==
  [][\A c \in Conns :
       /\ (c \in active'
             /\ net'[c] \in {"ConnectionResetError", "ConnectionAbortedError", "BrokenPipeError"})
           => failAge'[c] <= DELAY
       /\ FailureStep(c) => accepting' = accepting]_vars

C4_Witness ==
  \E c \in Conns :
    /\ net[c] = "ConnectionResetError"
    /\ exit[c] = "failed"
    /\ c \notin active
    /\ failAge[c] = DELAY
    /\ accepting

\* C5: a step in which one handler deals with a failure changes neither the
\* handler position, the socket, the connection state or the registration of
\* any other connection, nor whether the server is accepting.
C5_FailureContained ==
  [][\A c \in Conns :
       FailureStep(c) =>
         /\ accepting' = accepting
         /\ \A d \in Conns \ {c} :
              /\ pc'[d] = pc[d]
              /\ sock'[d] = sock[d]
              /\ net'[d] = net[d]
              /\ (d \in active') = (d \in active)]_vars

C5_Witness ==
  \E c, d \in Conns :
    /\ c # d
    /\ pc[c] = "done" /\ exit[c] = "failed" /\ net[c] = "Exception"
    /\ d \in active /\ pc[d] = "sleep"
    /\ accepting

OpenConns == {c \in Conns : pc[c] \notin {"idle", "done"} /\ sock[c] = "open"}

\* C7: the size of active_connections eventually equals the number of open
\* connections and stays equal to it (in the model only finitely many
\* connections are opened or closed).
C7_RegistryCountSettles ==
  <>[](Cardinality(active) = Cardinality(OpenConns))

C7_Witness ==
  /\ Cardinality(OpenConns) = NumConns
  /\ active = Conns

\* C8: a handler that left the drip loop by a failure has logged exactly one
\* of "Connection lost" (info; reset, aborted, broken pipe) and "Error"
\* (error, with the exception); a handler that did not has logged neither.
C8_OneRecordPerFailure ==
  \A c \in Conns :
    LET lost == Count(log[c], "Connection lost")
        err == Count(log[c], "Error")
    IN  /\ exit[c] # "failed" => lost + err = 0
        /\ exit[c] = "failed" =>
             /\ lost + err = 1
             /\ IF net[c] \in {"ConnectionResetError", "ConnectionAbortedError", "BrokenPipeError"}
                  THEN \E i \in DOMAIN log[c] :
                         log[c][i] = Rec("info", "Connection lost", "none")
                  ELSE \E i \in DOMAIN log[c] :
                         log[c][i] = Rec("error", "Error", net[c])

C8_Witness ==
  \E c \in Conns :
    /\ exit[c] = "failed"
    /\ net[c] = "BrokenPipeError"
    /\ log[c] = <<Rec("info", "Connection trapped", "none"),
                  Rec("info", "Connection lost", "none")>>

\* C9: every write adds exactly one byte, is made when no byte is unflushed
\* and, unless it is the first, when a full DELAY has passed since the
\* previous write.
C9_SequentialWrites ==
  [][\A c \in Conns :
       buf'[c] > buf[c] =>
         /\ buf[c] = 0
         /\ buf'[c] = 1
         /\ written[c] > 0 => sinceWrite[c] >= DELAY]_vars

C9_Witness ==
  \E c \in Conns : written[c] = 2 /\ buf[c] = 1 /\ pc[c] = "drain" /\ sinceWrite[c] = 0

\* C10: while a connection is held open without failure, with k the number
\* of full DELAY intervals since it was accepted, the handler has written
\* between k-1 and k+1 bytes, and at least one after more than one interval.
C10_BytesPerInterval ==
  \A c \in Conns :
    (InLoop(c) /\ net[c] = "ok" /\ age[c] < MaxTime) =>
      LET k == age[c] \div DELAY
      IN  /\ written[c] >= k - 1
          /\ written[c] <= k + 1
          /\ age[c] > DELAY => written[c] >= 1

C10_Witness ==
  \E c \in Conns :
    InLoop(c) /\ net[c] = "ok" /\ age[c] = 2 * DELAY /\ written[c] = 3

\* C11: whatever the other handlers are suspended in, the server can accept
\* a connection that is waiting while it is accepting, and every handler
\* that is ready to run can take its next step.
C11_SuspensionBlocksNothing ==
  \A c \in Conns :
    /\ (accepting /\ pc[c] = "idle") => ENABLED Accept(c)
    /\ (pc[c] \in {"accepted", "write", "drain", "finally", "close", "wait_closed"})
         => ENABLED Handler(c)

C11_Witness ==
  \E c, d \in Conns :
    /\ pc[c] = "accepted"
    /\ pc[d] \in {"drain", "sleep", "wait_closed"}
    /\ accepting

\* C12: _quiet_exception_handler swallows a context exactly when its
\* exception is a reset, an abort or a broken pipe, the errors the handler
\* logs as "Connection lost"; any other context goes to the previous handler
\* if there was one and to the loop's default handler otherwise.
C12_SwallowsOnlyDisconnects ==
  /\ \A i \in DOMAIN handled :
       LET h == handled[i]
       IN  /\ h.to = "swallowed" <=>
                h.exc \in {"ConnectionResetError", "ConnectionAbortedError", "BrokenPipeError"}
           /\ h.to # "swallowed" => h.to = (IF origInstalled THEN "orig" ELSE "default")
  /\ \A e \in ErrKinds :
       QuietHandler(e, origInstalled) = "swallowed" <=> ExceptLog(e).msg = "Connection lost"

C12_Witness ==
  /\ \E i \in DOMAIN handled : handled[i].to = "swallowed" /\ handled[i].exc = "BrokenPipeError"
  /\ \E i \in DOMAIN handled : handled[i].to = "orig" /\ handled[i].exc = "OSError"
  /\ \E i \in DOMAIN handled : handled[i].to = "orig" /\ handled[i].exc = "none"

\* C13: a handler leaves the drip loop only in a step where its connection
\* has failed or its task is cancelled; while neither has happened the server
\* does not close the socket; and a connection that is accepted and never
\* fails nor is cancelled is written to again and again forever.
C13_DripsForever ==
  /\ [][\A c \in Conns :
          /\ (InLoop(c) /\ ~InLoop(c)') => (net[c] # "ok" \/ exit'[c] = "cancelled")
          /\ (net'[c] = "ok" /\ exit'[c] = "none") =>
                (sock'[c] = "open" /\ pc'[c] \in {"idle", "accepted", "write", "drain", "sleep"})]_vars
  /\ \A c \in HandlerConns :
       \/ [](pc[c] = "idle")
       \/ <>(net[c] # "ok")
       \/ <>(exit[c] = "cancelled")
       \/ []<><<Write(c)>>_vars

C13_Witness ==
  \E c \in HandlerConns :
    /\ pc[c] = "sleep"
    /\ written[c] = MaxBytes
    /\ net[c] = "ok"
    /\ exit[c] = "none"
    /\ sock[c] = "open"

\* C14: every handler logs "Connection trapped" exactly once, when it
\* starts, and "Connection closed" exactly once, when it ends, whichever way
\* it left the drip loop.
C14_TrappedAndClosedOnce ==
  \A c \in Conns :
    /\ Count(log[c], "Connection trapped") = (IF pc[c] \in {"idle", "accepted"} THEN 0 ELSE 1)
    /\ Count(log[c], "Connection closed") = (IF pc[c] = "done" THEN 1 ELSE 0)

\* C15 as stated: the accept step adds the connection to active_connections,
\* and no connection is accepted while another accepted connection is not
\* yet registered.
C15_Original ==
  [][\A c \in Conns :
       (pc[c] = "idle" /\ pc'[c] # "idle") =>
         /\ c \in active'
         /\ \A d \in Conns \ {c} : pc[d] # "accepted"]_vars

\* C15 as amended: the accept step only creates the handler's task and leaves
\* active_connections and the listening server as they are; the connection
\* is added by the first step of its own handler (line 37), before the
\* handler writes a byte.
C15_RegisteredAtFirstRun ==
  [][\A c \in Conns :
       /\ (pc[c] = "idle" /\ pc'[c] # "idle") =>
            (pc'[c] = "accepted" /\ active' = active /\ accepting')
       /\ (pc[c] = "accepted" /\ pc'[c] # "accepted") =>
            (c \in active' /\ written'[c] = 0)
       /\ buf'[c] > buf[c] => c \in active]_vars

C15_Witness ==
  \E c, d \in Conns :
    /\ c # d
    /\ pc[c] = "accepted" /\ pc[d] = "accepted"
    /\ c \notin active /\ d \notin active
    /\ accepting

\* C16: adding a member to active_connections leaves it as it is; the
\* cleanup of a connection removes that connection and no other; and when
\* the connection is not a member (the registry was cleared while its
\* handler was alive) the cleanup changes nothing, raises nothing and goes on
\* to close the socket.
C16_AddDiscardIdempotent ==
  /\ [](\A c \in Conns :
          /\ c \in active => SetAdd(active, c) = active
          /\ c \notin active => SetDiscard(active, c) = active
          /\ SetDiscard(SetDiscard(active, c), c) = SetDiscard(active, c))
  /\ [][\A c \in Conns :
          (pc[c] = "finally" /\ pc'[c] # "finally") =>
            /\ active' = active \ {c}
            /\ c \notin active => active' = active
            /\ pc'[c] = "close"
            /\ log'[c] = log[c]
            /\ exit'[c] = exit[c]]_vars

C16_Witness ==
  \E c, d \in Conns :
    /\ noop[c]
    /\ pc[c] = "done"
    /\ sock[c] = "closed"
    /\ d \in active

\* The state of the handler of c in the handler state machine: 0 before the
\* connection is accepted, 1 ACCEPTED (task created, not yet run),
\* 2 REGISTERED (line 37 done, no byte written yet), 3 DRIPPING,
\* 4 CLOSING (the finally block), 5 CLOSED.
Phase(c) ==
  CASE pc[c] = "idle" -> 0
    [] pc[c] = "accepted" -> 1
    [] pc[c] = "write" /\ written[c] = 0 -> 2
    [] pc[c] = "write" /\ written[c] > 0 -> 3
    [] pc[c] \in {"drain", "sleep"} -> 3
    [] pc[c] \in {"finally", "close", "wait_closed"} -> 4
    [] pc[c] = "done" -> 5

\* C17: every step leaves a handler in its state or moves it to the next one
\* of ACCEPTED, REGISTERED, DRIPPING, CLOSING, CLOSED; nothing changes for
\* a handler that is CLOSED; and a byte is written only by a handler that is
\* REGISTERED or DRIPPING.
C17_StatesInOrder ==
  [][\A c \in Conns :
       /\ Phase(c)' \in {Phase(c), Phase(c) + 1}
       /\ Phase(c) = 5 =>
            /\ Phase(c)' = 5
            /\ <<log[c], active \cap {c}, buf[c], written[c], sock[c], cleanups[c]>>'
                 = <<log[c], active \cap {c}, buf[c], written[c], sock[c], cleanups[c]>>
       /\ buf'[c] > buf[c] => (Phase(c) \in {2, 3} /\ c \in active)]_vars

C17_Witness ==
  \E c \in Conns :
    /\ Phase(c) = 5
    /\ exit[c] = "failed"
    /\ written[c] = 2
    /\ Count(log[c], "Connection trapped") = 1

\* C18: the handler calls close() only on a socket that is not closing, at
\* most once, and the socket of a handler that has ended is closing or closed.
C18_CloseOnlyIfNotClosing ==
  /\ [](\A c \in Conns :
          /\ closeCalls[c] <= 1
          /\ pc[c] = "done" => sock[c] \in {"closing", "closed"}
          /\ pc[c] \in {"idle", "accepted", "write", "drain", "sleep", "finally", "close"}
               => closeCalls[c] = 0)
  /\ [][\A c \in Conns :
          /\ closeCalls'[c] # closeCalls[c] =>
               (pc[c] = "close" /\ sock[c] = "open" /\ sock'[c] = "closing")
          /\ (pc[c] = "close" /\ pc'[c] # "close" /\ sock[c] # "open") =>
               (closeCalls'[c] = closeCalls[c] /\ sock'[c] = sock[c])]_vars

C18_Witness ==
  \E c \in Conns :
    /\ pc[c] = "done"
    /\ net[c] = "BrokenPipeError"
    /\ exit[c] = "failed"
    /\ closeCalls[c] = 0
    /\ sock[c] = "closed"

\* C19: a handler cancelled in drain() or sleep() logs neither "Connection
\* lost" nor "Error"; the cancellation takes it into the finally block, where
\* it removes its connection from active_connections and closes the socket
\* unless the socket is already closing.
C19_CancelCleansUpSilently ==
  /\ [](\A c \in Conns :
          exit[c] = "cancelled" =>
            /\ Count(log[c], "Connection lost") = 0
            /\ Count(log[c], "Error") = 0
            /\ pc[c] \in {"finally", "close", "wait_closed", "done"}
            /\ pc[c] \in {"close", "wait_closed", "done"} => c \notin active
            /\ pc[c] \in {"wait_closed", "done"} => sock[c] # "open")
  /\ [][\A c \in Conns :
          /\ (exit[c] = "none" /\ exit'[c] = "cancelled") =>
               (pc[c] \in {"drain", "sleep"} /\ pc'[c] = "finally" /\ log'[c] = log[c])
          /\ (exit[c] = "cancelled" /\ pc[c] = "close" /\ pc'[c] # "close") =>
               closeCalls'[c] = closeCalls[c] + (IF sock[c] = "open" THEN 1 ELSE 0)]_vars

C19_Witness ==
  \E c \in Conns :
    /\ exit[c] = "cancelled"
    /\ pc[c] = "done"
    /\ closeCalls[c] = 1
    /\ c \notin active
    /\ log[c] = <<Rec("info", "Connection trapped", "none"),
                  Rec("info", "Connection closed", "none")>>

\* C20: a connection that is in active_connections is one on which its
\* handler has not called close() and has not begun to await the closure.
C20_DeregisteredBeforeClose ==
  \A c \in Conns :
    c \in active => (closeCalls[c] = 0 /\ pc[c] \notin {"wait_closed", "done"})

C20_Witness ==
  \E c \in Conns :
    /\ pc[c] = "wait_closed"
    /\ closeCalls[c] = 1
    /\ sock[c] = "closing"
    /\ c \notin active
    /\ cleanups[c] = 1

====
